---------------------------- MODULE Spec2Model ----------------------------
(***************************************************************************)
(* A model of the GraphView component (src/src/components/graph-view.js)   *)
(* and of the Node component's gesture handlers (src/src/components/       *)
(* node.js) of react-digraph.                                              *)
(*                                                                         *)
(* Conventions.                                                            *)
(*  - A node object is [id, ver]: id is its key (node[nodeKey]), ver tells *)
(*    two objects with the same key apart (the caller replaces a node by a *)
(*    new object with the same key; the code compares references).         *)
(*  - An edge object is [source, target]; key 0 is a missing key.          *)
(*  - Array indices are JavaScript's: 0-based, -1 for "none".              *)
(*  - state.nodes and props.nodes are the same array (line 101), as are    *)
(*    state.edges and props.edges (line 99): one variable each.            *)
(*  - setState merges the partial state; an update pass (render,           *)
(*    componentDidUpdate) follows when shouldComponentUpdate says so.      *)
(*    getDerivedStateFromProps runs when the caller supplies props.        *)
(*  - Every handler is one action; the record s carries the whole state    *)
(*    through the handler's statements.                                    *)
(*  - A scale is an exact fraction <<numerator, denominator>>.             *)
(*  - called, fired, thrown, returned, asked, sent and fitted record what   *)
(*    the last handlers were and did: history, not fields.                 *)
(***************************************************************************)
EXTENDS Integers, Sequences, FiniteSets, TLC

\* ------------------------------------------------------------------ bounds
MaxNodes == 2
MaxVer == 1
MaxPos == 1
MaxEdges == 2
MaxPending == 6
MaxPan == 1
MaxPasses == 3

NodeIds == 1..MaxNodes
Vers == 0..MaxVer
Pos == 0..MaxPos

NullNode == [id |-> 0, ver |-> 0]
NullEdge == [source |-> 0, target |-> 0]
NodeRefs == [id : NodeIds, ver : Vers]
EdgeRefs == {e \in [source : NodeIds, target : NodeIds] : e.source # e.target}

NoSelection == [kind |-> "none", node |-> NullNode, edge |-> NullEdge]
SelNode(n) == [kind |-> "node", node |-> n, edge |-> NullEdge]
SelEdge(e) == [kind |-> "edge", node |-> NullNode, edge |-> e]

\* ------------------------------------------------------------------ scales
RECURSIVE Gcd(_, _)
Gcd(a, b) == IF b = 0 THEN a ELSE Gcd(b, a % b)
Abs(a) == IF a < 0 THEN -a ELSE a

\* The fraction n/d (d > 0) in lowest terms.
Rat(n, d) ==
  LET g == Gcd(Abs(n), d) IN IF n = 0 THEN <<0, 1>> ELSE <<n \div g, d \div g>>
RatMul(a, b) == Rat(a[1] * b[1], a[2] * b[2])
RatLess(a, b) == a[1] * b[2] < b[1] * a[2]
RatAdd(a, b) == Rat(a[1] * b[2] + b[1] * a[2], a[2] * b[2])
RatSub(a, b) == Rat(a[1] * b[2] - b[1] * a[2], a[2] * b[2])
Whole(n) == <<n, 1>>

\* defaultProps: minZoom 0.15 (line 66) and maxZoom 1.5 (line 65), in
\* hundredths.
MinZoomHundredths == 15
MaxZoomHundredths == 150
MinZoom == Rat(MinZoomHundredths, 100)
MaxZoom == Rat(MaxZoomHundredths, 100)

\* this.zoom.scaleExtent() as componentDidMount sets it (line 167).
ScaleExtent == <<MinZoom, MaxZoom>>

NoTransform == [defined |-> FALSE, k |-> <<0, 1>>, x |-> <<0, 1>>]
Transform(k, x) == [defined |-> TRUE, k |-> k, x |-> x]

\* The deltas modifyZoom is called with, in halves: the factor 1 + modK is
\* -1, 0, 1/2, 1, 2 or 4.
ModKs == {-4, -2, -1, 0, 2, 6}
Pans == 0..MaxPan
\* The scales a wheel or pinch gesture can stop at: d3 keeps them inside the
\* scale extent.
ZoomLevels == {MinZoom, <<1, 1>>, MaxZoom}
\* What handleZoomToFit measures: the wrapper's clientWidth and clientHeight
\* and the bounding box of the rendered entities (empty when none is).
Viewports == {[width |-> 800, height |-> 600]}
EmptyBox == [x |-> 0, y |-> 0, width |-> 0, height |-> 0]
Boxes == {[x |-> -50, y |-> -50, width |-> 100, height |-> 100],
          [x |-> 0, y |-> 0, width |-> 1440, height |-> 600],
          [x |-> 100, y |-> 0, width |-> 400, height |-> 6000]}
\* props.layoutEngineType: none given to the component (a falsy value), the
\* default 'None' (line 63), or an engine that moves the nodes.
LayoutEngineTypes == {"", "None", "SnapToGrid"}

NotFitted == [done |-> FALSE, box |-> EmptyBox, width |-> 0, height |-> 0,
              k |-> <<0, 1>>, x |-> <<0, 1>>, y |-> <<0, 1>>]

VARIABLES
  mounted,          \* componentDidMount has run
  nodes,            \* props.nodes = state.nodes: sequence of node objects
  edges,            \* props.edges = state.edges: sequence of edge objects
  pos,              \* pos[k]: the x,y of the node object with key k in nodes
  selected,         \* props.selected
  readOnly,         \* props.readOnly
  layoutEngineType, \* props.layoutEngineType
  layoutEngine,     \* this.layoutEngine: the type it was made for ("": none)
  nodesMap,         \* state.nodesMap: key -> index entry
  edgesMap,         \* state.edgesMap: <<source, target>> -> index entry
  selectedNodeObj,  \* state.selectedNodeObj: null or {index, node}
  selectedEdgeObj,  \* state.selectedEdgeObj: null or {edge}
  hoveredNode,      \* state.hoveredNode
  hoveredNodeData,  \* state.hoveredNodeData
  edgeEndNode,      \* state.edgeEndNode
  draggingEdge,     \* state.draggingEdge
  draggedEdge,      \* state.draggedEdge
  selectingNode,    \* state.selectingNode
  componentUpToDate,\* state.componentUpToDate
  domNodes,         \* rendered Node components: key -> props and local state
  domEdges,         \* rendered edge containers: <<source, target>> -> content
  domCustom,        \* the transient edge's container 'edge-custom-container'
  timers,           \* pending setTimeout callbacks, in firing order
  pointer,          \* the node the pointer is over (0: none)
  dragNode,         \* the node a d3 drag is in progress on (0: none)
  pressed,          \* the primary button is down on an edge: a zoom gesture
  viewTransform,    \* state.viewTransform: undefined or {k, x}
  zoomTarget,       \* the transform a running zoom transition leads to
  fitPending,       \* componentDidMount's delayed handleZoomToFit is pending
  fitted,           \* what the last handleZoomToFit measured and asked for
  asked,            \* timeout id -> the redraw requests since its last redraw
  sent,             \* the frames and notifications of the gesture begun last
  called,           \* the handler that ran last
  returned,         \* what the last modifyZoom returned
  fired,            \* the caller notifications the last handler emitted
  thrown            \* the last handler ended in a TypeError

vars == << mounted, nodes, edges, pos, selected, readOnly, layoutEngineType,
           layoutEngine, nodesMap, edgesMap,
           selectedNodeObj, selectedEdgeObj, hoveredNode, hoveredNodeData,
           edgeEndNode, draggingEdge, draggedEdge, selectingNode,
           componentUpToDate, domNodes, domEdges, domCustom, timers, pointer,
           dragNode, pressed, viewTransform, zoomTarget, fitPending, fitted, asked, sent,
           called,
           returned, fired, thrown >>

\* The whole state as one record, threaded through a handler's statements,
\* at the start of the handler op.
On(op) ==
  [ mounted |-> mounted, nodes |-> nodes, edges |-> edges, pos |-> pos,
    selected |-> selected, readOnly |-> readOnly,
    layoutEngineType |-> layoutEngineType, layoutEngine |-> layoutEngine,
    nodesMap |-> nodesMap,
    edgesMap |-> edgesMap, selectedNodeObj |-> selectedNodeObj,
    selectedEdgeObj |-> selectedEdgeObj, hoveredNode |-> hoveredNode,
    hoveredNodeData |-> hoveredNodeData, edgeEndNode |-> edgeEndNode,
    draggingEdge |-> draggingEdge, draggedEdge |-> draggedEdge,
    selectingNode |-> selectingNode, componentUpToDate |-> componentUpToDate,
    domNodes |-> domNodes, domEdges |-> domEdges, domCustom |-> domCustom,
    timers |-> timers, pointer |-> pointer, dragNode |-> dragNode, pressed |-> pressed,
    viewTransform |-> viewTransform, zoomTarget |-> zoomTarget,
    fitPending |-> fitPending, fitted |-> fitted, asked |-> asked, called |-> op,
    returned |-> "none", fired |-> <<>>, thrown |-> FALSE ]

\* ----------------------------------------------------------------- helpers
Keys(ns) == {ns[i].id : i \in DOMAIN ns}
EdgeKey(e) == <<e.source, e.target>>
EdgeKeys(es) == {EdgeKey(es[i]) : i \in DOMAIN es}

\* arr[i] for a 0-based i; Undefined when i is out of range.
InRange(arr, i) == i >= 0 /\ i < Len(arr)

\* Array.prototype.splice(i, 1): a negative i counts from the end, an i past
\* the end removes nothing.
Splice(arr, i) ==
  LET start == IF i < 0 THEN (IF Len(arr) + i < 0 THEN 0 ELSE Len(arr) + i)
               ELSE i
  IN IF start >= Len(arr) THEN arr
     ELSE [j \in 1..(Len(arr) - 1) |-> IF j <= start THEN arr[j] ELSE arr[j + 1]]

RemoveKey(f, k) == [x \in (DOMAIN f) \ {k} |-> f[x]]
PutKey(f, k, v) == [x \in (DOMAIN f) \cup {k} |-> IF x = k THEN v ELSE f[x]]

Notify(s, n) == [s EXCEPT !.fired = Append(@, n)]
Throw(s) == [s EXCEPT !.thrown = TRUE]

\* The tally of a gesture (a d3 drag on a node, a zoom gesture begun on an
\* edge): whether it had a drag frame and the notifications its handlers
\* fired, each counted as 0, 1 or 2 (more than one). The tally is kept
\* until the first handler after the gesture's end.
Tallied == {"frames", "onUpdateNode", "onSelectNode", "onCreateEdge", "onSwapEdge"}
NoneSent == [n \in Tallied |-> 0]
Count(f, name) == Cardinality({i \in DOMAIN f : f[i].name = name})
Cap(n) == IF n > 2 THEN 2 ELSE n
Tally(s) ==
  IF s.called \in {"handleDragStart", "handleZoomStart"} THEN NoneSent
  ELSE IF dragNode # 0 \/ pressed
  THEN [n \in Tallied |->
          IF n = "frames"
          THEN (IF s.called \in {"handleMouseMove", "handleZoom"} THEN 1
                ELSE sent[n])
          ELSE Cap(sent[n] + Count(s.fired, n))]
  ELSE NoneSent

\* The handler's final state becomes the next state.
Apply(s) ==
  /\ mounted' = s.mounted
  /\ nodes' = s.nodes
  /\ edges' = s.edges
  /\ pos' = [k \in NodeIds |-> IF k \in Keys(s.nodes) THEN s.pos[k] ELSE 0]
  /\ selected' = s.selected
  /\ readOnly' = s.readOnly
  /\ layoutEngineType' = s.layoutEngineType
  /\ layoutEngine' = s.layoutEngine
  /\ nodesMap' = s.nodesMap
  /\ edgesMap' = s.edgesMap
  /\ selectedNodeObj' = s.selectedNodeObj
  /\ selectedEdgeObj' = s.selectedEdgeObj
  /\ hoveredNode' = s.hoveredNode
  /\ hoveredNodeData' = s.hoveredNodeData
  /\ edgeEndNode' = s.edgeEndNode
  /\ draggingEdge' = s.draggingEdge
  /\ draggedEdge' = s.draggedEdge
  /\ selectingNode' = s.selectingNode
  /\ componentUpToDate' = s.componentUpToDate
  /\ domNodes' = s.domNodes
  /\ domEdges' = s.domEdges
  /\ domCustom' = s.domCustom
  /\ timers' = s.timers
  /\ pointer' = s.pointer
  /\ dragNode' = s.dragNode
  /\ pressed' = s.pressed
  /\ viewTransform' = s.viewTransform
  /\ zoomTarget' = s.zoomTarget
  /\ fitPending' = s.fitPending
  /\ fitted' = s.fitted
  /\ asked' = s.asked
  /\ sent' = Tally(s)
  /\ called' = s.called
  /\ returned' = s.returned
  /\ fired' = s.fired
  /\ thrown' = s.thrown

\* --------------------------------------------------- GraphUtils (graph-util)
\* GraphUtils.getNodesMap: key -> {node, originalArrIndex, incomingEdges: [],
\* outgoingEdges: []}; a later node with the same key overwrites an earlier.
GetNodesMap(ns) ==
  [k \in Keys(ns) |->
     LET i == CHOOSE i \in DOMAIN ns :
                /\ ns[i].id = k
                /\ \A j \in DOMAIN ns : ns[j].id = k => j <= i
     IN [node |-> ns[i], originalArrIndex |-> i - 1,
         incomingEdges |-> <<>>, outgoingEdges |-> <<>>]]

\* GraphUtils.getEdgesMap: "source_target" -> {edge, originalArrIndex}.
GetEdgesMap(es) ==
  [k \in EdgeKeys(es) |->
     LET i == CHOOSE i \in DOMAIN es :
                /\ EdgeKey(es[i]) = k
                /\ \A j \in DOMAIN es : EdgeKey(es[j]) = k => j <= i
     IN [edge |-> es[i], originalArrIndex |-> i - 1]]

\* GraphUtils.linkNodesAndEdges: every edge whose source and target are both
\* in the map is pushed on its source's outgoingEdges and its target's
\* incomingEdges, in the order of the edge array.
LinkNodesAndEdges(nm, es) ==
  LET linked(e) == e.source \in DOMAIN nm /\ e.target \in DOMAIN nm
  IN [k \in DOMAIN nm |->
        [nm[k] EXCEPT
           !.incomingEdges = SelectSeq(es, LAMBDA e : linked(e) /\ e.target = k),
           !.outgoingEdges = SelectSeq(es, LAMBDA e : linked(e) /\ e.source = k)]]

\* GraphUtils.removeElementFromDom on an edge container / a node container.
RemoveEdgeElement(s, st) ==
  [s EXCEPT !.domEdges = RemoveKey(@, st)]
RemoveNodeElement(s, k) ==
  [s EXCEPT !.domNodes = RemoveKey(@, k)]
RemoveCustomElement(s) ==
  [s EXCEPT !.domCustom = "none"]

\* ------------------------------------- layout engines (utilities/layout-engine)
\* LayoutEngines[type] is an engine for 'None' and for 'SnapToGrid'.
HasEngine(type) == type \in {"None", "SnapToGrid"}

\* getPositionForNode / calculatePosition: 'None' keeps the position,
\* 'SnapToGrid' moves it to the grid point below it.
Snapped(p) == p - (p % (MaxPos + 1))
GetPositionForNode(engine, position) ==
  IF engine = "SnapToGrid" THEN Snapped(position) ELSE position

\* adjustNodes(nodes, nodesMap): every node of the array gets the position
\* the engine calculates for it; the array itself is returned.
AdjustNodes(s, engine) ==
  [s EXCEPT !.pos = [k \in NodeIds |->
                       IF k \in Keys(s.nodes)
                       THEN GetPositionForNode(engine, s.pos[k])
                       ELSE s.pos[k]]]

\* ------------------------------------------------------- rendering of edges
\* isEdgeSelected (lines 963-968).
IsEdgeSelected(s, e) ==
  /\ ~s.selectedEdgeObj.isNull
  /\ s.selectedEdgeObj.edge # NullEdge
  /\ s.selectedEdgeObj.edge.source = e.source
  /\ s.selectedEdgeObj.edge.target = e.target

\* renderEdge (lines 1001-1015). A missing container is created (unless the
\* edge is the dragged edge object) but the element is rendered only into a
\* container that was found before: the first call for an edge leaves an
\* empty container. isDragged: edge === state.draggedEdge.
RenderEdge(s, e, sel, isDragged) ==
  IF e.target # 0
  THEN LET k == EdgeKey(e) IN
       IF k \in DOMAIN s.domEdges
       THEN [s EXCEPT !.domEdges = PutKey(@, k, [rendered |-> TRUE, selected |-> sel])]
       ELSE IF ~isDragged
            THEN [s EXCEPT !.domEdges = PutKey(@, k, [rendered |-> FALSE, selected |-> FALSE])]
            ELSE s
  ELSE IF s.domCustom # "none"
       THEN [s EXCEPT !.domCustom = "rendered"]
       ELSE IF ~isDragged
            THEN [s EXCEPT !.domCustom = "empty"]
            ELSE s

\* syncRenderEdge (lines 1029-1038) with getEdgeComponent (980-998).
\* fromArray: the edge object comes from the edge array or an adjacency list
\* (and so can be the dragged edge object itself).
SyncRenderEdge(s, e, fromArray) ==
  IF e.source = 0 THEN s
  ELSE RenderEdge(s, e, IsEdgeSelected(s, e),
                  fromArray /\ s.draggedEdge # NullEdge /\ e = s.draggedEdge)

RECURSIVE SyncRenderEdges(_, _)
SyncRenderEdges(s, es) ==
  IF es = <<>> THEN s
  ELSE SyncRenderEdges(SyncRenderEdge(s, Head(es), TRUE), Tail(es))

\* syncRenderConnectedEdgesFromNode (lines 930-941).
SyncRenderConnectedEdgesFromNode(s, entry) ==
  IF s.draggingEdge THEN s
  ELSE SyncRenderEdges(SyncRenderEdges(s, entry.incomingEdges), entry.outgoingEdges)

\* ------------------------------------------------------- rendering of nodes
\* syncRenderNode (lines 952-961) with getNodeComponent (890-912) and
\* renderNode (914-928). getNodeComponent reads state.selectedNodeObj.node:
\* a TypeError when selectedNodeObj is null. The rendered Node keeps its
\* props (data, index, isSelected, layoutEngine) and derives its x,y from
\* data.
SyncRenderNode(s, n, i) ==
  IF s.selectedNodeObj.isNull THEN Throw(s)
  ELSE LET s1 == [s EXCEPT !.domNodes =
                     PutKey(@, n.id, [data |-> n, index |-> i,
                                      selected |-> (s.selectedNodeObj.node = n),
                                      layoutEngine |-> s.layoutEngine,
                                      x |-> s.pos[n.id]])]
       IN IF n.id \in DOMAIN s1.nodesMap
          THEN SyncRenderConnectedEdgesFromNode(s1, s1.nodesMap[n.id])
          ELSE s1

\* ------------------------------------------------------------------ timers
\* A captured reference to an array or a map of the state: live while the
\* object is still the state's, frozen (its content kept) once the state
\* holds another object.
LiveRef == [live |-> TRUE, val |-> <<>>]
Frozen(v) == [live |-> FALSE, val |-> v]
Deref(r, cur) == IF r.live THEN cur ELSE r.val

Timer(type) ==
  [type |-> type, node |-> NullNode, index |-> 0, edge |-> NullEdge,
   prevNodeMap |-> LiveRef, prevEdgesMap |-> LiveRef, prevEdges |-> LiveRef,
   curNodesMap |-> LiveRef, curEdgesMap |-> LiveRef]

\* The timeout ids `nodes-${key}` (line 945) and `edges-${source}-${target}`
\* (line 1021); the other callbacks are not kept under an id.
NodeTimeoutId(n) == <<"nodes", n.id, 0>>
EdgeTimeoutId(e) == <<"edges", e.source, e.target>>
TimeoutId(t) ==
  CASE t.type = "renderNode" -> NodeTimeoutId(t.node)
    [] t.type = "renderEdge" -> EdgeTimeoutId(t.edge)
    [] OTHER -> <<"none", 0, 0>>

\* One more request under a timeout id: whether it is the first since the
\* id's callback last ran, and the latest request.
Ask(a, timeoutId, new) ==
  PutKey(a, timeoutId, [several |-> timeoutId \in DOMAIN a, last |-> new])

\* asyncRenderNode without the clearTimeout.
AsyncRenderNodeKeepingPending(s, n, i) ==
  LET new == [Timer("renderNode") EXCEPT !.node = n, !.index = i]
  IN [s EXCEPT !.timers = Append(@, new),
               !.asked = Ask(@, NodeTimeoutId(n), new)]

\* asyncRenderNode (lines 943-950): clearTimeout of the pending redraw with
\* the same id, then a new timeout.
AsyncRenderNode(s, n, i) ==
  LET timeoutId == NodeTimeoutId(n)
      kept == SelectSeq(s.timers, LAMBDA t : TimeoutId(t) # timeoutId)
      new == [Timer("renderNode") EXCEPT !.node = n, !.index = i]
  IN [s EXCEPT !.timers = Append(kept, new),
               !.asked = Ask(@, timeoutId, new)]

\* asyncRenderEdge (lines 1017-1026).
AsyncRenderEdge(s, e) ==
  IF e.source = 0 \/ e.target = 0 THEN s
  ELSE LET timeoutId == EdgeTimeoutId(e)
           kept == SelectSeq(s.timers, LAMBDA t : TimeoutId(t) # timeoutId)
           new == [Timer("renderEdge") EXCEPT !.edge = e]
       IN [s EXCEPT !.timers = Append(kept, new),
                    !.asked = Ask(@, timeoutId, new)]

RECURSIVE AsyncRenderNodes(_, _, _)
AsyncRenderNodes(s, ns, i) ==
  IF i >= Len(ns) THEN s
  ELSE AsyncRenderNodes(AsyncRenderNode(s, ns[i + 1], i), ns, i + 1)

RECURSIVE AsyncRenderEdges(_, _)
AsyncRenderEdges(s, es) ==
  IF es = <<>> THEN s
  ELSE AsyncRenderEdges(AsyncRenderEdge(s, Head(es)), Tail(es))

\* addNewNodes (lines 269-285): both branches redraw the node.
AddNewNodes(s) ==
  IF s.draggingEdge THEN s ELSE AsyncRenderNodes(s, s.nodes, 0)

\* addNewEdges (lines 310-323).
AddNewEdges(s, oldEdgeKeys) ==
  IF s.draggingEdge THEN s
  ELSE AsyncRenderEdges(s,
         SelectSeq(s.edges, LAMBDA e : e.source # 0 /\ e.target # 0
                                       /\ EdgeKey(e) \notin oldEdgeKeys))

RECURSIVE RemoveEdgeElements(_, _)
RemoveEdgeElements(s, es) ==
  IF es = <<>> THEN s
  ELSE RemoveEdgeElements(RemoveEdgeElement(s, EdgeKey(Head(es))), Tail(es))

\* removeOldEdges (lines 325-337).
RemoveOldEdges(s, prevEdges, edgeKeys) ==
  RemoveEdgeElements(s,
    SelectSeq(prevEdges, LAMBDA e : e.source # 0 /\ e.target # 0
                                    /\ EdgeKey(e) \notin edgeKeys))

\* removeOldNodes (lines 287-308).
RECURSIVE RemoveOldNodesFrom(_, _, _, _)
RemoveOldNodesFrom(s, prevNodeMap, nodeKeys, todo) ==
  IF todo = {} THEN s
  ELSE LET k == CHOOSE k \in todo : \A j \in todo : k <= j
           s1 == IF k \in nodeKeys THEN s
                 ELSE RemoveNodeElement(
                        RemoveEdgeElements(
                          RemoveEdgeElements(s, prevNodeMap[k].outgoingEdges),
                          prevNodeMap[k].incomingEdges),
                        prevNodeMap[k].node.id)
       IN RemoveOldNodesFrom(s1, prevNodeMap, nodeKeys, todo \ {k})

RemoveOldNodes(s, prevNodeMap, nodeKeys) ==
  RemoveOldNodesFrom(s, prevNodeMap, nodeKeys, DOMAIN prevNodeMap)

\* componentDidUpdate that never reports the component up to date.
ComponentDidUpdateLeavingStale(s, pNodeMap, pEdgesMap, pEdges) ==
  [s EXCEPT
     !.timers = @ \o << Timer("addNewNodes"),
                        [Timer("addNewEdges") EXCEPT !.prevEdgesMap = pEdgesMap],
                        [Timer("removeOldEdges") EXCEPT !.prevEdges = pEdges],
                        [Timer("removeOldNodes") EXCEPT !.prevNodeMap = pNodeMap] >>]

\* componentDidUpdate (lines 211-247): with a layout engine, a new engine
\* adjusts the nodes (setState({nodes})); then the four deferred diff steps,
\* in this order, and setState({componentUpToDate: true}). The two setState
\* calls are made inside the commit and take effect together.
ComponentDidUpdate(s, pNodeMap, pEdgesMap, pEdges) ==
  LET s1 == IF HasEngine(s.layoutEngineType)
            THEN [AdjustNodes(s, s.layoutEngineType) EXCEPT
                    !.layoutEngine = s.layoutEngineType]
            ELSE s
  IN [s1 EXCEPT
        !.timers = @ \o << Timer("addNewNodes"),
                           [Timer("addNewEdges") EXCEPT !.prevEdgesMap = pEdgesMap],
                           [Timer("removeOldEdges") EXCEPT !.prevEdges = pEdges],
                           [Timer("removeOldNodes") EXCEPT !.prevNodeMap = pNodeMap] >>,
        !.componentUpToDate = TRUE]

\* shouldComponentUpdate (lines 197-209). propsChanged: nodes, edges,
\* selected, readOnly or layoutEngineType of nextProps is not this.props'.
ShouldComponentUpdate(propsChanged, nextState) ==
  propsChanged \/ ~nextState.componentUpToDate

\* The update passes that follow a change of the props or of the state:
\* while shouldComponentUpdate answers true, render and componentDidUpdate,
\* whose setState starts the next round with the same props; prevState then
\* holds the same arrays and maps as the state. At most MaxPasses passes are
\* followed.
RECURSIVE UpdatePasses(_, _, _, _, _, _)
UpdatePasses(s, propsChanged, pNodeMap, pEdgesMap, pEdges, left) ==
  IF left = 0 \/ ~ShouldComponentUpdate(propsChanged, s) THEN s
  ELSE UpdatePasses(ComponentDidUpdate(s, pNodeMap, pEdgesMap, pEdges),
                    FALSE, LiveRef, LiveRef, LiveRef, left - 1)

\* What follows a setState outside a batch: the props are unchanged and
\* prevState holds the same arrays and maps as the state.
AfterSetState(s) ==
  UpdatePasses(s, FALSE, LiveRef, LiveRef, LiveRef, MaxPasses)

\* ------------------------------------------------- getDerivedStateFromProps
\* getDerivedStateFromProps (lines 74-115), on the props already in s: the
\* maps are rebuilt and linked, the selection records are derived from
\* props.selected, componentUpToDate is true. prevNodes: prevState.nodes;
\* when it is empty a layout engine adjusts the nodes (lines 90-95).
GetDerivedStateFromProps(s0, prevNodes) ==
  LET s == IF prevNodes = <<>> /\ HasEngine(s0.layoutEngineType)
           THEN AdjustNodes(s0, s0.layoutEngineType) ELSE s0
      nm == LinkNodesAndEdges(GetNodesMap(s.nodes), s.edges)
      em == GetEdgesMap(s.edges)
      hasNode == s.selected.kind = "node" /\ s.selected.node.id \in DOMAIN nm
      hasEdge == s.selected.kind = "edge" /\ EdgeKey(s.selected.edge) \in DOMAIN em
  IN [s EXCEPT
        !.nodesMap = nm,
        !.edgesMap = em,
        !.componentUpToDate = TRUE,
        !.selectedEdgeObj =
           [isNull |-> FALSE,
            edge |-> IF hasEdge
                     THEN s.edges[em[EdgeKey(s.selected.edge)].originalArrIndex + 1]
                     ELSE NullEdge],
        !.selectedNodeObj =
           [isNull |-> FALSE,
            index |-> IF hasNode THEN nm[s.selected.node.id].originalArrIndex ELSE -1,
            node |-> IF hasNode
                     THEN s.nodes[nm[s.selected.node.id].originalArrIndex + 1]
                     ELSE NullNode]]

\* The pending callbacks keep the maps (and, when the caller replaced it, the
\* edge array) the state held before the props arrived.
FreezeTimers(old, edgesReplaced) ==
  [i \in DOMAIN old.timers |->
     LET t == old.timers[i] IN
     CASE t.type = "addNewEdges" ->
            [t EXCEPT !.prevEdgesMap =
               IF @.live THEN Frozen(DOMAIN old.edgesMap) ELSE @]
       [] t.type = "removeOldEdges" ->
            [t EXCEPT !.curEdgesMap =
               IF @.live THEN Frozen(DOMAIN old.edgesMap) ELSE @,
                      !.prevEdges =
               IF @.live /\ edgesReplaced THEN Frozen(old.edges) ELSE @]
       [] t.type = "removeOldNodes" ->
            [t EXCEPT !.prevNodeMap =
               IF @.live THEN Frozen(old.nodesMap) ELSE @,
                      !.curNodesMap =
               IF @.live THEN Frozen(DOMAIN old.nodesMap) ELSE @]
       [] OTHER -> t]

\* The caller renders GraphView with new props: getDerivedStateFromProps,
\* then the update passes, the first with the previous state's maps and
\* arrays.
ReceiveProps(old, ns, es, sel, ro, engineType) ==
  LET s1 == [old EXCEPT !.timers = FreezeTimers(old, es # old.edges),
                        !.nodes = ns, !.edges = es,
                        !.selected = sel, !.readOnly = ro,
                        !.layoutEngineType = engineType]
      s2 == GetDerivedStateFromProps(s1, old.nodes)
      propsChanged == \/ ns # old.nodes \/ es # old.edges
                      \/ sel # old.selected \/ ro # old.readOnly
                      \/ engineType # old.layoutEngineType
  IN UpdatePasses(s2, propsChanged,
                  Frozen(old.nodesMap), Frozen(DOMAIN old.edgesMap),
                  IF es # old.edges THEN Frozen(old.edges) ELSE LiveRef,
                  MaxPasses)

\* ---------------------------------------------------------------- handlers
\* handleNodeMouseEnter (lines 589-606).
HandleNodeMouseEnter(s, data, hovered) ==
  IF hovered /\ ~s.hoveredNode
  THEN [s EXCEPT !.hoveredNode = TRUE, !.hoveredNodeData = data]
  ELSE IF ~hovered /\ s.hoveredNode /\ s.draggingEdge
       THEN [s EXCEPT !.edgeEndNode = data]
       ELSE [s EXCEPT !.hoveredNode = TRUE, !.hoveredNodeData = data]

\* handleNodeMouseLeave (lines 608-624). buttons: the primary button is down;
\* related: what the pointer moved to ("none": event.relatedTarget is null,
\* "edge": an edge-overlay-path, "other": anything else outside a node).
HandleNodeMouseLeave(s, buttons, related) ==
  IF buttons THEN s
  ELSE IF related = "other"
       THEN [s EXCEPT !.hoveredNode = FALSE, !.edgeEndNode = NullNode]
       ELSE s

\* handleNodeMove telling the caller of the node's update on every frame.
HandleNodeMoveNotifying(s, position, index, shiftKey, canCreate) ==
  IF s.readOnly \/ ~InRange(s.nodes, index) THEN s
  ELSE Notify([s EXCEPT !.pos[s.nodes[index + 1].id] = position],
              [name |-> "onUpdateNode", node |-> s.nodes[index + 1]])

\* handleNodeMove keeping the edge it draws in the edge collection.
HandleNodeMovePersisting(s, position, index, shiftKey, canCreate) ==
  IF s.readOnly \/ ~shiftKey \/ ~canCreate \/ ~InRange(s.nodes, index) THEN s
  ELSE LET edge == [source |-> s.nodes[index + 1].id, target |-> 0]
       IN AfterSetState([SyncRenderEdge(s, edge, FALSE) EXCEPT
                           !.edges = Append(@, edge),
                           !.draggingEdge = TRUE])

\* handleNodeMove (lines 501-529). nodes[index] may be undefined: reading
\* its fields is a TypeError.
HandleNodeMove(s, position, index, shiftKey, canCreate) ==
  IF s.readOnly THEN s
  ELSE IF ~shiftKey
  THEN IF ~InRange(s.nodes, index) THEN Throw(s)
       ELSE LET node == s.nodes[index + 1]
                s1 == [s EXCEPT !.pos[node.id] = position]
            IN IF node.id \notin DOMAIN s1.nodesMap THEN s1
               ELSE SyncRenderEdges(
                      SyncRenderEdges(s1, s1.nodesMap[node.id].incomingEdges),
                      s1.nodesMap[node.id].outgoingEdges)
  ELSE IF canCreate
  THEN IF ~InRange(s.nodes, index) THEN Throw(s)
       ELSE LET node == s.nodes[index + 1]
                s1 == SyncRenderEdge(s, [source |-> node.id, target |-> 0], FALSE)
            IN AfterSetState([s1 EXCEPT !.draggingEdge = TRUE])
  ELSE s

\* createNewEdge (lines 531-563). canCreate: what canCreateEdge() answers.
CreateNewEdge(s, canCreate) ==
  LET s1 == RemoveCustomElement(s) IN
  IF s1.edgeEndNode = NullNode THEN s1
  ELSE IF s1.hoveredNodeData = NullNode THEN Throw(s1)
  ELSE LET src == s1.hoveredNodeData
           tgt == s1.edgeEndNode
       IN IF /\ src # tgt
             /\ canCreate
             /\ <<src.id, tgt.id>> \notin DOMAIN s1.edgesMap
             /\ <<tgt.id, src.id>> \notin DOMAIN s1.edgesMap
          THEN LET edge == [source |-> src.id, target |-> tgt.id]
                   s2 == AfterSetState([s1 EXCEPT !.componentUpToDate = FALSE,
                                                  !.draggedEdge = NullEdge,
                                                  !.draggingEdge = FALSE])
                   s3 == SyncRenderEdge(s2, edge, FALSE)
               IN Notify(s3, [name |-> "onCreateEdge", source |-> src, target |-> tgt])
          ELSE s1

\* handleNodeUpdate (lines 565-587).
HandleNodeUpdate(s, position, index, shiftKey, canCreate) ==
  LET s1 == IF shiftKey THEN CreateNewEdge(s, canCreate)
            ELSE IF InRange(s.nodes, index)
                 THEN LET node == s.nodes[index + 1]
                      IN Notify([s EXCEPT !.pos[node.id] = position],
                                [name |-> "onUpdateNode", node |-> node])
                 ELSE s
  IN IF s1.thrown THEN s1
     ELSE AfterSetState([s1 EXCEPT !.componentUpToDate = FALSE,
                                   !.hoveredNode = FALSE])

\* handleNodeSelected (lines 626-648).
HandleNodeSelected(s, node, index, creatingEdge) ==
  LET hadPrev == ~s.selectedNodeObj.isNull /\ s.selectedNodeObj.node # NullNode
      prev == s.selectedNodeObj.node
      prevIndex == IF hadPrev THEN s.selectedNodeObj.index ELSE -1
      s1 == AfterSetState([s EXCEPT !.componentUpToDate = FALSE,
                                    !.selectedNodeObj =
                                       [isNull |-> FALSE, index |-> index, node |-> node]])
      s2 == SyncRenderNode(s1, node, index)
      s3 == IF hadPrev /\ ~s2.thrown THEN SyncRenderNode(s2, prev, prevIndex) ELSE s2
  IN IF s3.thrown \/ creatingEdge THEN s3
     ELSE Notify(s3, [name |-> "onSelectNode", node |-> node])

\* deleteNode (lines 357-379). getNodeById(...).originalArrIndex is a
\* TypeError when the key is not in the node index.
DeleteNode(s, selectedNode) ==
  IF selectedNode.id \notin DOMAIN s.nodesMap THEN Throw(s)
  ELSE LET originalArrIndex == s.nodesMap[selectedNode.id].originalArrIndex
           s1 == [s EXCEPT !.nodesMap = RemoveKey(@, selectedNode.id),
                           !.nodes = Splice(@, originalArrIndex)]
           s2 == AfterSetState([s1 EXCEPT !.componentUpToDate = FALSE,
                                          !.hoveredNode = FALSE])
           s3 == RemoveNodeElement(s2, selectedNode.id)
           s4 == Notify(s3, [name |-> "onDeleteNode", node |-> selectedNode,
                             index |-> originalArrIndex, nodes |-> s3.nodes])
       IN Notify(s4, [name |-> "onSelectNode", node |-> NullNode])

\* deleteEdge (lines 381-406).
DeleteEdge(s, selectedEdge) ==
  IF selectedEdge.source = 0 \/ selectedEdge.target = 0 THEN s
  ELSE IF EdgeKey(selectedEdge) \notin DOMAIN s.edgesMap THEN Throw(s)
  ELSE LET originalArrIndex == s.edgesMap[EdgeKey(selectedEdge)].originalArrIndex
           s1 == [s EXCEPT !.edges = Splice(@, originalArrIndex),
                           !.edgesMap = RemoveKey(@, EdgeKey(selectedEdge))]
           s2 == AfterSetState([s1 EXCEPT !.componentUpToDate = FALSE])
           s3 == RemoveEdgeElement(s2, EdgeKey(selectedEdge))
       IN Notify(s3, [name |-> "onDeleteEdge", edge |-> selectedEdge,
                      index |-> originalArrIndex, edges |-> s3.edges])

\* handleDelete without the test of readOnly.
HandleDeleteIgnoringReadOnly(s, sel, allowed) ==
  IF sel.kind = "none" THEN s
  ELSE IF sel.kind = "node" /\ allowed THEN DeleteNode(s, sel.node)
  ELSE IF sel.kind = "edge" /\ allowed THEN DeleteEdge(s, sel.edge)
  ELSE s

\* handleDelete (lines 408-421). sel: the selected node or edge, or none;
\* allowed: what canDeleteNode / canDeleteEdge answers.
HandleDelete(s, sel, allowed) ==
  IF s.readOnly \/ sel.kind = "none" THEN s
  ELSE IF sel.kind = "node" /\ allowed THEN DeleteNode(s, sel.node)
  ELSE IF sel.kind = "edge" /\ allowed THEN DeleteEdge(s, sel.edge)
  ELSE s

\* handleWrapperKeydown (lines 423-431), keys Delete and Backspace.
HandleDeleteKey(s, allowed) ==
  IF s.selectedNodeObj.isNull THEN s
  ELSE HandleDelete(s,
         IF s.selectedNodeObj.node # NullNode
         THEN SelNode(s.selectedNodeObj.node) ELSE s.selected,
         allowed)

\* handleWrapperKeydown (lines 423-450). key: d.key; mod: d.metaKey or
\* d.ctrlKey; the caller has given onUndo, onCopySelected, onPasteSelected.
\* Reading node of a null state.selectedNodeObj is a TypeError.
HandleWrapperKeydown(s, key, mod, allowed) ==
  CASE key \in {"Delete", "Backspace"} -> HandleDeleteKey(s, allowed)
    [] key = "z" -> IF mod THEN Notify(s, [name |-> "onUndo"]) ELSE s
    [] key \in {"c", "v"} ->
         IF ~mod THEN s
         ELSE IF s.selectedNodeObj.isNull THEN Throw(s)
         ELSE IF s.selectedNodeObj.node = NullNode THEN s
         ELSE Notify(s, [name |-> IF key = "c" THEN "onCopySelected"
                                  ELSE "onPasteSelected"])
    [] OTHER -> s

\* handleEdgeSelected (lines 452-469), for a click on the rendered edge with
\* data-source = source and data-target = target.
HandleEdgeSelected(s, source, target) ==
  IF <<source, target>> \notin DOMAIN s.edgesMap THEN Throw(s)
  ELSE LET originalArrIndex == s.edgesMap[<<source, target>>].originalArrIndex
           hadPrev == ~s.selectedEdgeObj.isNull /\ s.selectedEdgeObj.edge # NullEdge
           prev == s.selectedEdgeObj.edge
           defined == InRange(s.edges, originalArrIndex)
           edge == IF defined THEN s.edges[originalArrIndex + 1] ELSE NullEdge
           s1 == AfterSetState([s EXCEPT !.selectedEdgeObj =
                                  [isNull |-> FALSE, edge |-> edge]])
       IN IF ~defined THEN Throw(s1)
          ELSE LET s2 == SyncRenderEdge(s1, edge, TRUE)
                   s3 == IF hadPrev THEN SyncRenderEdge(s2, prev, TRUE) ELSE s2
               IN Notify(s3, [name |-> "onSelectEdge", edge |-> edge])

\* handleSvgClicked (lines 471-495). onEdge: the click hit a rendered edge
\* (source, target); shiftKey: the edge-modifier is held.
HandleSvgClicked(s, onEdge, source, target, shiftKey) ==
  IF onEdge THEN HandleEdgeSelected(s, source, target)
  ELSE IF s.selectingNode THEN AfterSetState([s EXCEPT !.selectingNode = FALSE])
  ELSE LET hadPrev == ~s.selectedNodeObj.isNull /\ s.selectedNodeObj.node # NullNode
           prev == s.selectedNodeObj.node
           prevIndex == IF ~s.selectedNodeObj.isNull /\ s.selectedNodeObj.index # 0
                        THEN s.selectedNodeObj.index ELSE -1
           s1 == AfterSetState([s EXCEPT !.selectedNodeObj =
                                  [isNull |-> TRUE, index |-> -1, node |-> NullNode]])
           s2 == Notify(s1, [name |-> "onSelectNode", node |-> NullNode])
           s3 == IF hadPrev THEN SyncRenderNode(s2, prev, prevIndex) ELSE s2
       IN IF s3.thrown \/ s3.readOnly \/ ~shiftKey THEN s3
          ELSE Notify(s3, [name |-> "onCreateNode"])

\* ---------------------------------------------------------------- viewport
\* setZoom (lines 861-870): a transition of the svg to the transform; a new
\* transition replaces a running one.
SetZoom(s, k, x) == [s EXCEPT !.zoomTarget = Transform(k, x)]

\* dragEdge (lines 709-727) without an argument.
DragEdge(s) ==
  IF s.draggedEdge = NullEdge THEN s
  ELSE IF s.draggedEdge.source \notin DOMAIN s.nodesMap THEN Throw(s)
  ELSE AfterSetState(SyncRenderEdge(s, [source |-> s.draggedEdge.source,
                                        target |-> 0], FALSE))

\* handleZoomStart (lines 682-707). onEdge: the event's target is the
\* edge-overlay-path with id key; onArrow: what arrowClicked (653-675)
\* answers for the distance of the press from the edge's target.
HandleZoomStart(s, onEdge, key, onArrow) ==
  IF s.readOnly \/ ~onEdge THEN s
  ELSE IF key \notin DOMAIN s.edgesMap THEN s
  ELSE LET edge == s.edgesMap[key].edge
       IN IF edge.target = 0 \/ ~onArrow THEN s
          ELSE DragEdge(AfterSetState(
                 [RemoveEdgeElement(s, EdgeKey(edge)) EXCEPT
                    !.draggingEdge = TRUE, !.draggedEdge = edge]))

\* canSwap (lines 350-355).
CanSwap(sourceNode, hovered, swapEdge) ==
  /\ hovered # NullNode
  /\ (swapEdge.source # sourceNode.id \/ swapEdge.target # hovered.id)

\* handleZoomEnd (lines 747-780). getNodeById(...).node is a TypeError for
\* a key that is not in the node index.
HandleZoomEnd(s) ==
  IF ~s.draggingEdge \/ s.draggedEdge = NullEdge THEN s
  ELSE LET dragged == s.draggedEdge
           endNode == s.edgeEndNode
           s1 == AfterSetState([RemoveCustomElement(s) EXCEPT
                                  !.draggedEdge = NullEdge,
                                  !.draggingEdge = FALSE])
       IN IF dragged.source \notin DOMAIN s1.nodesMap THEN Throw(s1)
          ELSE LET sourceNode == s1.nodesMap[dragged.source].node
                   draggedEdgeCopy ==
                     IF CanSwap(sourceNode, endNode, dragged)
                     THEN [dragged EXCEPT !.target = endNode.id]
                     ELSE dragged
                   s2 == SyncRenderEdge(s1, draggedEdgeCopy, FALSE)
               IN IF draggedEdgeCopy.target \notin DOMAIN s2.nodesMap THEN Throw(s2)
                  ELSE Notify(s2, [name |-> "onSwapEdge",
                                   source |-> s2.nodesMap[draggedEdgeCopy.source].node,
                                   target |-> s2.nodesMap[draggedEdgeCopy.target].node,
                                   edge |-> dragged])

\* handleZoom applying the event's transform whatever the gesture flags say.
HandleZoomUnsuppressed(s, transform) ==
  AfterSetState([s EXCEPT !.viewTransform = transform])

\* handleZoom (lines 730-745) for the zoom event's transform.
HandleZoom(s, transform) ==
  IF ~s.hoveredNode /\ ~s.draggingEdge
  THEN AfterSetState([s EXCEPT !.viewTransform = transform])
  ELSE IF s.draggingEdge THEN DragEdge(s)
  ELSE s

\* handleZoomToFit without the clamping of the scale.
FitTransformUnclamped(box, width, height) ==
  IF box.width > 0 /\ box.height > 0
  THEN LET dxw == Rat(box.width, width)
           dyh == Rat(box.height, height)
           m == IF RatLess(dxw, dyh) THEN dyh ELSE dxw
           k == Rat(9 * m[2], 10 * m[1])
       IN [k |-> k,
           x |-> RatSub(Rat(width, 2), RatMul(k, Rat(2 * box.x + box.width, 2))),
           y |-> RatSub(Rat(height, 2), RatMul(k, Rat(2 * box.y + box.height, 2)))]
  ELSE [k |-> RatMul(RatAdd(MinZoom, MaxZoom), <<1, 2>>),
        x |-> Whole(0), y |-> Whole(0)]

\* handleZoomToFit (lines 783-819): the transform next for the bounding box
\* viewBBox of the entities and the wrapper's clientWidth and clientHeight.
FitTransform(box, width, height) ==
  LET mid == RatMul(RatAdd(MinZoom, MaxZoom), <<1, 2>>) IN
  IF box.width > 0 /\ box.height > 0
  THEN LET dxw == Rat(box.width, width)
           dyh == Rat(box.height, height)
           m == IF RatLess(dxw, dyh) THEN dyh ELSE dxw
           fit == Rat(9 * m[2], 10 * m[1])
           k == IF RatLess(fit, MinZoom) THEN MinZoom
                ELSE IF RatLess(MaxZoom, fit) THEN MaxZoom
                ELSE fit
           x == Rat(2 * box.x + box.width, 2)
           y == Rat(2 * box.y + box.height, 2)
       IN [k |-> k,
           x |-> RatSub(Rat(width, 2), RatMul(k, x)),
           y |-> RatSub(Rat(height, 2), RatMul(k, y))]
  ELSE [k |-> mid, x |-> Whole(0), y |-> Whole(0)]

HandleZoomToFit(s, box, width, height) ==
  LET next == FitTransform(box, width, height)
  IN SetZoom([s EXCEPT !.fitted = [done |-> TRUE, box |-> box, width |-> width,
                                   height |-> height, k |-> next.k,
                                   x |-> next.x, y |-> next.y]],
             next.k, next.x)

\* modifyZoom without the test against the scale extent.
ModifyZoomUnchecked(s, modK, modX) ==
  IF ~s.viewTransform.defined THEN Throw(s)
  ELSE SetZoom([s EXCEPT !.returned = "true"],
               RatMul(s.viewTransform.k, Rat(2 + modK, 2)),
               RatAdd(s.viewTransform.x, Whole(modX)))

\* modifyZoom (lines 822-858). modK is in halves; reading k of an undefined
\* state.viewTransform is a TypeError. next.x + center.x - l.x + modX is
\* next.x + modX, as l.x is center.x.
ModifyZoom(s, modK, modX) ==
  IF ~s.viewTransform.defined THEN Throw(s)
  ELSE LET targetZoom == RatMul(s.viewTransform.k, Rat(2 + modK, 2))
       IN IF RatLess(targetZoom, ScaleExtent[1]) \/ RatLess(ScaleExtent[2], targetZoom)
          THEN [s EXCEPT !.returned = "false"]
          ELSE SetZoom([s EXCEPT !.returned = "true"], targetZoom,
                       RatAdd(s.viewTransform.x, Whole(modX)))

\* ---------------------------------------------------------- Node component
\* Node.handleMouseMove (node.js lines 120-150) of the rendered node k, with
\* the primary button down: without the edge-modifier the Node keeps the new
\* x,y (as its layoutEngine prop places it) in its own state; onNodeMove gets
\* the Node's index prop.
NodeHandleMouseMove(s, k, position, shiftKey, canCreate) ==
  LET dn == s.domNodes[k]
      newState == IF ~shiftKey /\ dn.layoutEngine # ""
                  THEN GetPositionForNode(dn.layoutEngine, position)
                  ELSE position
      s1 == IF shiftKey THEN s ELSE [s EXCEPT !.domNodes[k].x = newState]
  IN HandleNodeMove(s1, newState, dn.index, shiftKey, canCreate)

\* Node.handleDragEnd (node.js lines 163-184): onNodeUpdate with the Node's
\* own x,y and index prop, then onNodeSelected with its data prop.
NodeHandleDragEnd(s, k, shiftKey, canCreate) ==
  LET dn == s.domNodes[k]
      s1 == HandleNodeUpdate(s, dn.x, dn.index, shiftKey, canCreate)
  IN IF s1.thrown THEN s1
     ELSE HandleNodeSelected(s1, dn.data, dn.index, shiftKey)

\* ----------------------------------------------------------------- actions
Init ==
  /\ mounted = FALSE
  /\ nodes = [i \in 1..MaxNodes |-> [id |-> i, ver |-> 0]]
  /\ edges = <<>>
  /\ pos = [k \in NodeIds |-> 0]
  /\ selected = NoSelection
  /\ readOnly = FALSE
  /\ layoutEngineType = "None"
  /\ layoutEngine = "None"
  /\ nodesMap = <<>>
  /\ edgesMap = <<>>
  /\ selectedNodeObj = [isNull |-> TRUE, index |-> -1, node |-> NullNode]
  /\ selectedEdgeObj = [isNull |-> TRUE, edge |-> NullEdge]
  /\ hoveredNode = FALSE
  /\ hoveredNodeData = NullNode
  /\ edgeEndNode = NullNode
  /\ draggingEdge = FALSE
  /\ draggedEdge = NullEdge
  /\ selectingNode = FALSE
  /\ componentUpToDate = FALSE
  /\ domNodes = <<>>
  /\ domEdges = <<>>
  /\ domCustom = "none"
  /\ timers = <<>>
  /\ pointer = 0
  /\ dragNode = 0
  /\ pressed = FALSE
  /\ viewTransform = NoTransform
  /\ zoomTarget = NoTransform
  /\ fitPending = FALSE
  /\ fitted = NotFitted
  /\ asked = <<>>
  /\ sent = NoneSent
  /\ called = "constructor"
  /\ returned = "none"
  /\ fired = <<>>
  /\ thrown = FALSE

\* Mounting: getDerivedStateFromProps, the first render, componentDidMount
\* (lines 160-191), whose renderView (873-879) defers renderNodes.
Mount ==
  /\ ~mounted
  /\ Apply([GetDerivedStateFromProps(On("componentDidMount"), <<>>) EXCEPT
              !.mounted = TRUE,
              !.fitPending = TRUE,
              !.timers = Append(@, Timer("renderNodes"))])

\* The next pending setTimeout callback runs.
RunTimerBody(s, t) ==
  CASE t.type = "renderNodes" -> AsyncRenderNodes(s, s.nodes, 0)
    [] t.type = "addNewNodes" -> AddNewNodes(s)
    [] t.type = "addNewEdges" ->
         AddNewEdges(s, Deref(t.prevEdgesMap, DOMAIN s.edgesMap))
    [] t.type = "removeOldEdges" ->
         RemoveOldEdges(s, Deref(t.prevEdges, s.edges),
                        Deref(t.curEdgesMap, DOMAIN s.edgesMap))
    [] t.type = "removeOldNodes" ->
         RemoveOldNodes(s, Deref(t.prevNodeMap, s.nodesMap),
                        Deref(t.curNodesMap, DOMAIN s.nodesMap))
    [] t.type = "renderNode" ->
         SyncRenderNode([s EXCEPT !.asked = RemoveKey(@, TimeoutId(t))],
                        t.node, t.index)
    [] t.type = "renderEdge" ->
         SyncRenderEdge([s EXCEPT !.asked = RemoveKey(@, TimeoutId(t))],
                        t.edge, TRUE)

RunTimer ==
  /\ mounted
  /\ timers # <<>>
  /\ Apply(RunTimerBody([On("timeout") EXCEPT !.timers = Tail(@)], Head(timers)))

\* The pointer moves onto the rendered node k, or from one of its elements
\* to another (mouseover bubbles): Node.handleMouseOver (node.js lines
\* 186-195); hovered is false while the primary button is down.
PointerEnter(k) ==
  /\ mounted
  /\ pointer \in {0, k}
  /\ k \in DOMAIN domNodes
  /\ Apply(HandleNodeMouseEnter([On("handleMouseOver") EXCEPT !.pointer = k],
                                domNodes[k].data, dragNode = 0 /\ ~pressed))

\* The pointer leaves the node it is over: Node.handleMouseOut (node.js
\* lines 197-204). A node whose element is gone fires no event.
PointerLeave(related) ==
  /\ mounted
  /\ pointer # 0
  /\ Apply(IF pointer \in DOMAIN domNodes
           THEN HandleNodeMouseLeave([On("handleMouseOut") EXCEPT !.pointer = 0],
                                     dragNode # 0 \/ pressed, related)
           ELSE [On("none") EXCEPT !.pointer = 0])

\* The primary button goes down on the node under the pointer: the d3 drag
\* starts (Node.handleDragStart, node.js lines 152-161, reorders siblings).
DragStart ==
  /\ mounted
  /\ dragNode = 0
  /\ ~pressed
  /\ pointer \in DOMAIN domNodes
  /\ Apply([On("handleDragStart") EXCEPT !.dragNode = pointer])

DragMove(position, shiftKey, canCreate) ==
  /\ mounted
  /\ dragNode \in DOMAIN domNodes
  /\ Apply(NodeHandleMouseMove(On("handleMouseMove"), dragNode, position,
                               shiftKey, canCreate))

DragEnd(shiftKey, canCreate) ==
  /\ mounted
  /\ dragNode # 0
  /\ Apply(IF dragNode \in DOMAIN domNodes
           THEN [NodeHandleDragEnd(On("handleDragEnd"), dragNode, shiftKey,
                                   canCreate)
                   EXCEPT !.dragNode = 0]
           ELSE [On("none") EXCEPT !.dragNode = 0])

\* A click (the button is up again) that reaches the wrapper: on a rendered
\* edge, or elsewhere.
ClickEdge(k) ==
  /\ mounted
  /\ dragNode = 0
  /\ pointer = 0
  /\ k \in DOMAIN domEdges
  /\ domEdges[k].rendered
  /\ Apply(HandleSvgClicked(On("handleSvgClicked"), TRUE, k[1], k[2], FALSE))

ClickCanvas(shiftKey) ==
  /\ mounted
  /\ dragNode = 0
  /\ Apply(HandleSvgClicked(On("handleSvgClicked"), FALSE, 0, 0, shiftKey))

\* The Delete or Backspace key.
DeleteKey(allowed) ==
  /\ mounted
  /\ Apply(HandleDeleteKey(On("handleWrapperKeydown"), allowed))

\* A key goes down anywhere in the document (the listener of line 162).
KeyDown(key, mod, allowed) ==
  /\ mounted
  /\ Apply(HandleWrapperKeydown(On("handleWrapperKeydown"), key, mod, allowed))

\* The delayed callback of componentDidMount (lines 186-190).
ZoomToFit(box, view) ==
  /\ mounted
  /\ fitPending
  /\ box = EmptyBox <=> DOMAIN domNodes = {}
  /\ Apply(HandleZoomToFit([On("handleZoomToFit") EXCEPT !.fitPending = FALSE],
                           box, view.width, view.height))

\* The running transition reaches its transform: a zoom event.
ZoomTransition ==
  /\ mounted
  /\ zoomTarget.defined
  /\ Apply(HandleZoom([On("handleZoom") EXCEPT !.zoomTarget = NoTransform],
                      zoomTarget))

\* A wheel or pinch gesture away from the nodes (zoomFilter, lines 344-348):
\* it interrupts a running transition; its zoom event carries a transform
\* inside the scale extent.
UserZoom(k, x) ==
  /\ mounted
  /\ pointer = 0
  /\ dragNode = 0
  /\ Apply(HandleZoom([On("handleZoom") EXCEPT !.zoomTarget = NoTransform],
                      Transform(k, Whole(x))))

\* The primary button goes down on the rendered edge k, away from the nodes:
\* the zoom gesture starts (handleZoomStart).
RetargetStart(k, onArrow) ==
  /\ mounted
  /\ dragNode = 0
  /\ pointer = 0
  /\ ~pressed
  /\ k \in DOMAIN domEdges
  /\ domEdges[k].rendered
  /\ Apply(HandleZoomStart([On("handleZoomStart") EXCEPT !.pressed = TRUE,
                                                          !.zoomTarget = NoTransform],
                            TRUE, k, onArrow))

\* The pointer moves with the button down: a zoom event.
RetargetMove(x) ==
  /\ mounted
  /\ pressed
  /\ Apply(HandleZoom(On("handleZoom"),
                      Transform(IF viewTransform.defined THEN viewTransform.k
                                ELSE <<1, 1>>, Whole(x))))

\* The button goes up: the zoom gesture ends (handleZoomEnd).
RetargetEnd ==
  /\ mounted
  /\ pressed
  /\ Apply(HandleZoomEnd([On("handleZoomEnd") EXCEPT !.pressed = FALSE]))

\* The graph controls call modifyZoom; they are rendered once a zoom event
\* has set state.viewTransform (line 739).
ModifyZoomCall(modK, modX) ==
  /\ mounted
  /\ viewTransform.defined
  /\ modX = 0 \/ ~RatLess(Whole(MaxPan), RatAdd(viewTransform.x, Whole(modX)))
  /\ Apply(ModifyZoom(On("modifyZoom"), modK, modX))

\* ------------------------------------------------------------------ caller
\* The caller's next object for the node nodes[i]: object identities are
\* numbered in the order the caller makes them.
HasFresh(i) == nodes[i].ver < MaxVer
Fresh(i) == [id |-> nodes[i].id, ver |-> nodes[i].ver + 1]

CallerSelect(sel) ==
  /\ mounted
  /\ sel # selected
  /\ Apply(ReceiveProps(On("render"), nodes, edges, sel, readOnly, layoutEngineType))

CallerSetReadOnly ==
  /\ mounted
  /\ Apply(ReceiveProps(On("render"), nodes, edges, selected, ~readOnly, layoutEngineType))

CallerAddEdge(e) ==
  /\ mounted
  /\ Len(edges) < MaxEdges
  /\ EdgeKey(e) \notin EdgeKeys(edges)
  /\ Apply(ReceiveProps(On("render"), nodes, Append(edges, e), selected, readOnly, layoutEngineType))

CallerRemoveEdge(i) ==
  /\ mounted
  /\ i \in DOMAIN edges
  /\ Apply(ReceiveProps(On("render"), nodes, Splice(edges, i - 1), selected, readOnly, layoutEngineType))

CallerReplaceNode(i) ==
  /\ mounted
  /\ i \in DOMAIN nodes
  /\ HasFresh(i)
  /\ Apply(ReceiveProps(On("render"), [nodes EXCEPT ![i] = Fresh(i)],
                        edges, selected, readOnly, layoutEngineType))

\* The caller's next props leave out the node nodes[i], and with it the
\* edges at the node or not.
CallerRemoveNode(i, withEdges) ==
  /\ mounted
  /\ i \in DOMAIN nodes
  /\ Apply(ReceiveProps(On("render"), Splice(nodes, i - 1),
                        IF withEdges
                        THEN SelectSeq(edges, LAMBDA e : /\ e.source # nodes[i].id
                                                        /\ e.target # nodes[i].id)
                        ELSE edges,
                        selected, readOnly, layoutEngineType))

\* The caller's next props name another layout engine, or none.
CallerSetLayout(type) ==
  /\ mounted
  /\ type # layoutEngineType
  /\ Apply(ReceiveProps(On("render"), nodes, edges, selected, readOnly, type))

Selectable ==
  {NoSelection} \cup {SelNode(nodes[i]) : i \in DOMAIN nodes}
                \cup {SelEdge(edges[i]) : i \in DOMAIN edges}

\* ---------------------------------------------------------- specifications
\* Events arrive between bursts of deferred callbacks: the callbacks of a
\* burst (setTimeout with no delay) run before the next event is handled.
Quiet == timers = <<>>

\* Drawing edges between nodes the caller may replace and link.
NextCreate ==
  \/ Mount
  \/ RunTimer
  \/ Quiet /\ \E k \in NodeIds : PointerEnter(k)
  \/ Quiet /\ \E r \in {"none", "edge", "other"} : PointerLeave(r)
  \/ Quiet /\ DragStart
  \/ Quiet /\ DragMove(0, TRUE, TRUE)
  \/ Quiet /\ \E c \in BOOLEAN : DragEnd(TRUE, c)
  \/ Quiet /\ \E e \in EdgeRefs : CallerAddEdge(e)

SpecCreate == Init /\ [][NextCreate]_vars

\* Drawing edges while the caller replaces the first node by a new object.
NextReplace ==
  \/ Mount
  \/ RunTimer
  \/ Quiet /\ \E k \in NodeIds : PointerEnter(k)
  \/ Quiet /\ \E r \in {"none", "edge", "other"} : PointerLeave(r)
  \/ Quiet /\ DragStart
  \/ Quiet /\ DragMove(0, TRUE, TRUE)
  \/ Quiet /\ \E c \in BOOLEAN : DragEnd(TRUE, c)
  \/ Quiet /\ CallerReplaceNode(1)

SpecReplace == Init /\ [][NextReplace]_vars

\* Deleting what the caller selected, read-only or not.
NextDelete ==
  \/ Mount
  \/ RunTimer
  \/ Quiet /\ \E a \in BOOLEAN : DeleteKey(a)
  \/ Quiet /\ \E sel \in Selectable : CallerSelect(sel)
  \/ Quiet /\ CallerSetReadOnly
  \/ Quiet /\ \E e \in EdgeRefs : CallerAddEdge(e)

SpecDelete == Init /\ [][NextDelete]_vars

\* Selecting nodes and edges with the pointer.
NextSelect ==
  \/ Mount
  \/ RunTimer
  \/ Quiet /\ \E k \in NodeIds : PointerEnter(k)
  \/ Quiet /\ PointerLeave("other")
  \/ Quiet /\ DragStart
  \/ Quiet /\ \E sh \in BOOLEAN : DragEnd(sh, TRUE)
  \/ Quiet /\ \E k \in NodeIds \X NodeIds : ClickEdge(k)
  \/ Quiet /\ \E sh \in BOOLEAN : ClickCanvas(sh)
  \/ Quiet /\ \E e \in EdgeRefs : CallerAddEdge(e)

SpecSelect == Init /\ [][NextSelect]_vars

\* Moving nodes, read-only or not.
NextMove ==
  \/ Mount
  \/ RunTimer
  \/ Quiet /\ \E k \in NodeIds : PointerEnter(k)
  \/ Quiet /\ PointerLeave("other")
  \/ Quiet /\ DragStart
  \/ Quiet /\ \E p \in Pos : DragMove(p, FALSE, TRUE)
  \/ Quiet /\ DragEnd(FALSE, TRUE)
  \/ Quiet /\ CallerSetReadOnly

SpecMove == Init /\ [][NextMove]_vars

\* The caller supplies new collections while callbacks are pending.
NextRender ==
  \/ Mount
  \/ RunTimer
  \/ Len(timers) <= MaxPending /\ \E e \in EdgeRefs : CallerAddEdge(e)
  \/ Len(timers) <= MaxPending /\ \E i \in 1..MaxEdges : CallerRemoveEdge(i)
  \/ Len(timers) <= MaxPending /\ \E i \in 1..MaxNodes : CallerReplaceNode(i)

SpecRender == Init /\ [][NextRender]_vars

\* Zooming, with the pointer on and off the nodes.
NextZoom ==
  \/ Mount
  \/ RunTimer
  \/ Quiet /\ \E k \in NodeIds : PointerEnter(k)
  \/ Quiet /\ \E r \in {"none", "other"} : PointerLeave(r)
  \/ \E box \in Boxes \cup {EmptyBox}, view \in Viewports : ZoomToFit(box, view)
  \/ ZoomTransition
  \/ \E k \in ZoomLevels, x \in Pans : UserZoom(k, x)
  \/ \E m \in ModKs, x \in Pans : ModifyZoomCall(m, x)

SpecZoom == Init /\ [][NextZoom]_vars

\* Dragging the arrows of the caller's edges to other nodes.
NextRetarget ==
  \/ Mount
  \/ RunTimer
  \/ Quiet /\ \E k \in NodeIds : PointerEnter(k)
  \/ Quiet /\ \E r \in {"none", "other"} : PointerLeave(r)
  \/ Quiet /\ \E k \in NodeIds \X NodeIds, a \in BOOLEAN : RetargetStart(k, a)
  \/ Quiet /\ \E x \in Pans : RetargetMove(x)
  \/ Quiet /\ RetargetEnd
  \/ Quiet /\ \E e \in EdgeRefs : CallerAddEdge(e)

SpecRetarget == Init /\ [][NextRetarget]_vars

\* Key presses before, during and after gestures on the nodes.
KeyNames == {"Delete", "z", "c", "v"}

NextKeys ==
  \/ Mount
  \/ RunTimer
  \/ Quiet /\ \E k \in NodeIds : PointerEnter(k)
  \/ Quiet /\ PointerLeave("other")
  \/ Quiet /\ DragStart
  \/ Quiet /\ DragMove(0, TRUE, TRUE)
  \/ Quiet /\ DragEnd(FALSE, TRUE)
  \/ Quiet /\ \E key \in KeyNames, mod \in BOOLEAN : KeyDown(key, mod, TRUE)
  \/ Quiet /\ CallerSetReadOnly

SpecKeys == Init /\ [][NextKeys]_vars

\* Whole gestures: node drags and edge draws while the caller has no edges,
\* node drags and edge retargets once the caller has supplied the edge 1->2.
NextGesture ==
  \/ Mount
  \/ RunTimer
  \/ Quiet /\ \E k \in NodeIds : PointerEnter(k)
  \/ Quiet /\ PointerLeave("other")
  \/ Quiet /\ DragStart
  \/ Quiet /\ DragMove(MaxPos, FALSE, TRUE)
  \/ Quiet /\ edges = <<>> /\ DragMove(0, TRUE, TRUE)
  \/ Quiet /\ DragEnd(draggingEdge, TRUE)
  \/ Quiet /\ \E k \in NodeIds \X NodeIds : RetargetStart(k, TRUE)
  \/ Quiet /\ RetargetMove(0)
  \/ Quiet /\ RetargetEnd
  \/ Quiet /\ dragNode = 0 /\ ~draggingEdge
           /\ CallerAddEdge([source |-> 1, target |-> 2])

SpecGesture == Init /\ [][NextGesture]_vars

\* The caller adds edges and removes nodes, one update at a time.
NextReconcile ==
  \/ Mount
  \/ RunTimer
  \/ Quiet /\ \E e \in EdgeRefs : CallerAddEdge(e)
  \/ Quiet /\ \E i \in 1..MaxNodes, w \in BOOLEAN : CallerRemoveNode(i, w)

SpecReconcile == Init /\ [][NextReconcile]_vars

\* The caller adds and removes edges while edges are drawn from the nodes.
NextSuspend ==
  \/ Mount
  \/ RunTimer
  \/ Quiet /\ \E k \in NodeIds : PointerEnter(k)
  \/ Quiet /\ DragStart
  \/ Quiet /\ DragMove(0, TRUE, TRUE)
  \/ Quiet /\ DragEnd(TRUE, TRUE)
  \/ Quiet /\ \E e \in EdgeRefs : CallerAddEdge(e)
  \/ Quiet /\ \E i \in 1..MaxEdges : CallerRemoveEdge(i)

SpecSuspend == Init /\ [][NextSuspend]_vars

\* The Delete key arrives between the deferred callbacks of an update.
NextRace ==
  \/ Mount
  \/ RunTimer
  \/ Len(timers) <= MaxPending /\ DeleteKey(TRUE)
  \/ Quiet /\ \E sel \in Selectable : CallerSelect(sel)

SpecRace == Init /\ [][NextRace]_vars

\* Updates from the caller and from the component itself, with a layout
\* engine, with another, and with none.
NextLayout ==
  \/ Mount
  \/ RunTimer
  \/ Quiet /\ \E type \in LayoutEngineTypes : CallerSetLayout(type)
  \/ Quiet /\ \E k \in NodeIds : PointerEnter(k)
  \/ Quiet /\ DragStart
  \/ Quiet /\ DragMove(MaxPos, FALSE, TRUE)
  \/ Quiet /\ DragEnd(FALSE, TRUE)
  \/ Quiet /\ DeleteKey(TRUE)
  \/ Quiet /\ CallerAddEdge([source |-> 1, target |-> 2])

SpecLayout == Init /\ [][NextLayout]_vars

\* ------------------------------------------------------------------ claims
\* The onCreateEdge notifications of the handler that ran last.
Created == {fired[i] : i \in {j \in DOMAIN fired : fired[j].name = "onCreateEdge"}}
Between(e, a, b) ==
  \/ e.source = a /\ e.target = b
  \/ e.source = b /\ e.target = a

\* C1: after an accepted createEdge(a, b) the edge collection holds exactly
\* one edge between a and b, whether or not an edge between them was created
\* before and whether or not the caller has supplied new collections since.
C1_OneEdgeBetween ==
  \A n \in Created :
    Cardinality({i \in DOMAIN edges :
                   Between(edges[i], n.source.id, n.target.id)}) = 1

\* createEdge(s, t) is called: the drag ends with the edge-modifier held, on
\* a rendered node, with s = hoveredNodeData and t = edgeEndNode.
CreateEdgeCalled(canCreate) ==
  /\ DragEnd(TRUE, canCreate)
  /\ dragNode \in DOMAIN domNodes
  /\ hoveredNodeData # NullNode
  /\ edgeEndNode # NullNode

\* C2: createEdge(s, t) is rejected when an edge s->t or t->s is in the edge
\* index, when s and t are the same node, or when canCreateEdge answers
\* false; a rejected createEdge leaves the edge collection and the edge index
\* as they were and fires no onCreateEdge.
C2_CreateEdgeRejected ==
  [][\A canCreate \in BOOLEAN :
       ( /\ CreateEdgeCalled(canCreate)
         /\ \/ <<hoveredNodeData.id, edgeEndNode.id>> \in DOMAIN edgesMap
            \/ <<edgeEndNode.id, hoveredNodeData.id>> \in DOMAIN edgesMap
            \/ hoveredNodeData.id = edgeEndNode.id
            \/ ~canCreate )
       => /\ edges' = edges
          /\ edgesMap' = edgesMap
          /\ \A i \in DOMAIN fired' : fired'[i].name # "onCreateEdge"]_vars

\* The onDeleteNode notifications of the handler that ran last.
DeletedNodes == {fired[i] : i \in {j \in DOMAIN fired : fired[j].name = "onDeleteNode"}}
Incident(st, k) == st[1] = k \/ st[2] = k

\* C3: deleteNode(n) leaves n neither in the node collection nor in the node
\* index, and no edge with source or target n in the edge collection or in
\* the edge index.
C3_DeleteNodeCascades ==
  \A d \in DeletedNodes :
    /\ d.node.id \notin Keys(nodes)
    /\ d.node.id \notin DOMAIN nodesMap
    /\ \A i \in DOMAIN edges : ~Incident(EdgeKey(edges[i]), d.node.id)
    /\ \A st \in DOMAIN edgesMap : ~Incident(st, d.node.id)

\* C4: the selected-node record and the selected-edge record never both hold
\* an entity.
C4_OneSelection ==
  ~( /\ ~selectedNodeObj.isNull /\ selectedNodeObj.node # NullNode
     /\ ~selectedEdgeObj.isNull /\ selectedEdgeObj.edge # NullEdge )

InExtent(k) == ~RatLess(k, MinZoom) /\ ~RatLess(MaxZoom, k)

\* C5: modifyZoom(modK, modX) on the transform {k, x}: when k * (1 + modK)
\* is outside the scale extent it returns false and neither the view
\* transform nor the running transition changes; otherwise it returns true
\* and the zoom is set to the scale k * (1 + modK), which is inside the
\* extent (and to the translation x + modX). No scale outside the extent is
\* ever requested or held.
C5_ModifyZoomInExtent ==
  [][/\ \A modK \in ModKs, modX \in Pans :
          ModifyZoomCall(modK, modX) =>
            LET target == RatMul(viewTransform.k, Rat(2 + modK, 2)) IN
            IF InExtent(target)
            THEN /\ returned' = "true"
                 /\ zoomTarget' = Transform(target,
                                            RatAdd(viewTransform.x, Whole(modX)))
                 /\ viewTransform' = viewTransform
            ELSE /\ returned' = "false"
                 /\ zoomTarget' = zoomTarget
                 /\ viewTransform' = viewTransform
     /\ zoomTarget'.defined => InExtent(zoomTarget'.k)
     /\ viewTransform'.defined => InExtent(viewTransform'.k)]_vars

\* A modifyZoom was accepted and asks for another scale than the current.
C5_Witness ==
  /\ called = "modifyZoom"
  /\ returned = "true"
  /\ zoomTarget.defined
  /\ zoomTarget.k # viewTransform.k
  /\ InExtent(zoomTarget.k)

\* C6: with readOnly true, the Delete or Backspace key (handleDelete on the
\* selected node or edge) changes neither the node and edge collections nor
\* the indices, removes no rendered element and fires none of onDeleteNode,
\* onDeleteEdge, onSelectNode.
C6_ReadOnlyDelete ==
  [][\A allowed \in BOOLEAN :
       (readOnly /\ DeleteKey(allowed)) =>
         /\ UNCHANGED <<nodes, edges, nodesMap, edgesMap, domNodes, domEdges>>
         /\ \A i \in DOMAIN fired' :
              fired'[i].name \notin {"onDeleteNode", "onDeleteEdge", "onSelectNode"}]_vars

\* The key was pressed, read-only, with a node of the collection selected
\* and an edge in the collection.
C6_Witness ==
  /\ called = "handleWrapperKeydown"
  /\ readOnly
  /\ ~selectedNodeObj.isNull
  /\ selectedNodeObj.node # NullNode
  /\ selectedNodeObj.node.id \in DOMAIN nodesMap
  /\ edges # <<>>

Mutations ==
  {"onUpdateNode", "onCreateNode", "onCreateEdge", "onDeleteNode",
   "onDeleteEdge", "onSwapEdge"}

\* C7: while readOnly is true no operation moves a node, changes the node or
\* edge collection, or fires a notification of a change (here: the moves and
\* updates of a node drag).
C7_ReadOnlyNoMutation ==
  [][(readOnly /\ readOnly') =>
       /\ UNCHANGED <<nodes, edges, pos>>
       /\ \A i \in DOMAIN fired' : fired'[i].name \notin Mutations]_vars

\* C9: every node's adjacency lists in the node index hold exactly the edges
\* of the edge collection that start (outgoingEdges) or end (incomingEdges)
\* at the node and have both endpoints in the node index, in the
\* collection's order.
C9_AdjacencyAgrees ==
  mounted =>
    \A k \in DOMAIN nodesMap :
      LET linked(e) == e.source \in DOMAIN nodesMap /\ e.target \in DOMAIN nodesMap IN
      /\ nodesMap[k].outgoingEdges = SelectSeq(edges, LAMBDA e : linked(e) /\ e.source = k)
      /\ nodesMap[k].incomingEdges = SelectSeq(edges, LAMBDA e : linked(e) /\ e.target = k)

\* C10: an accepted createEdge(s, t) leaves the edge s->t as the last element
\* of the edge collection and in the edge index, rendered and not selected,
\* and has fired onCreateEdge once, with the source and the target node.
C10_CreateEdgeAppends ==
  \A n \in Created :
    LET st == <<n.source.id, n.target.id>> IN
    /\ n.source = hoveredNodeData
    /\ n.target = edgeEndNode
    /\ Cardinality({i \in DOMAIN fired : fired[i].name = "onCreateEdge"}) = 1
    /\ edges # <<>>
    /\ EdgeKey(edges[Len(edges)]) = st
    /\ st \in DOMAIN edgesMap
    /\ st \in DOMAIN domEdges
    /\ domEdges[st].rendered
    /\ ~domEdges[st].selected

Pending(timeoutId) == {i \in DOMAIN timers : TimeoutId(timers[i]) = timeoutId}

\* C8: however many redraws of a node or of an edge were requested since its
\* last redraw ran, exactly one redraw of it is pending, with the arguments
\* of the latest request; and no redraw is pending that was not requested.
C8_RedrawCoalesced ==
  /\ \A timeoutId \in DOMAIN asked :
       /\ Cardinality(Pending(timeoutId)) = 1
       /\ \A i \in Pending(timeoutId) : timers[i] = asked[timeoutId].last
  /\ \A i \in DOMAIN timers :
       timers[i].type \in {"renderNode", "renderEdge"}
         => TimeoutId(timers[i]) \in DOMAIN asked

\* A node's redraw was requested again, for the node's new object, while its
\* redraw for the old object was pending.
C8_Witness ==
  \E timeoutId \in DOMAIN asked :
    /\ asked[timeoutId].several
    /\ asked[timeoutId].last.type = "renderNode"
    /\ asked[timeoutId].last.node.ver > 0
    /\ asked[timeoutId].last.node.id \notin DOMAIN domNodes


\* The rendered entities that report selected.
ShownSelected ==
  {<<"node", k, 0>> : k \in {n \in DOMAIN domNodes : domNodes[n].selected}}
    \cup {<<"edge", e[1], e[2]>> : e \in {d \in DOMAIN domEdges : domEdges[d].selected}}

\* C11: after a node is selected (a press and release on it), after an edge
\* is selected (a click on it) and after a plain click on the canvas, the
\* entity just selected is the only rendered entity that reports selected:
\* whatever was selected before, node or edge, was redrawn as unselected.
C11_SelectionRedrawn ==
  [][ /\ \A k \in NodeIds, sh \in BOOLEAN :
           (DragEnd(sh, TRUE) /\ dragNode = k /\ k \in DOMAIN domNodes)
             => ShownSelected' = {<<"node", k, 0>>}
      /\ \A e \in NodeIds \X NodeIds :
           ClickEdge(e) => ShownSelected' = {<<"edge", e[1], e[2]>>}
      /\ ClickCanvas(FALSE) => ShownSelected' = {} ]_vars


\* C12: when the retarget gesture on the edge s->t is released, the target
\* handed to onSwapEdge is t, unless a node h is hovered that is not s and
\* that no edge links with s in either direction: only then may it be h.
C12_RetargetGuarded ==
  [][ (RetargetEnd /\ draggingEdge /\ draggedEdge # NullEdge) =>
        \A i \in DOMAIN fired' :
          fired'[i].name = "onSwapEdge" =>
            LET s == draggedEdge.source
                t == draggedEdge.target
                h == edgeEndNode
                n == fired'[i].target.id
            IN \/ n = t
               \/ /\ h # NullNode
                  /\ n = h.id
                  /\ h.id # s
                  /\ <<s, h.id>> \notin EdgeKeys(edges)
                  /\ <<h.id, s>> \notin EdgeKeys(edges) ]_vars


\* C13: when an edge-draw gesture from a node is released while the pointer
\* is over no node, or over the source node, or while creation is not
\* permitted, the release fires no onCreateEdge.
C13_ReleaseElsewhereCancels ==
  [][ \A c \in BOOLEAN :
        (/\ DragEnd(TRUE, c)
         /\ dragNode \in DOMAIN domNodes
         /\ (pointer = 0 \/ pointer = dragNode \/ ~c))
          => \A i \in DOMAIN fired' : fired'[i].name # "onCreateEdge" ]_vars


\* C14: a key press invokes nothing (no notification, no change of the
\* collections) while an edge is being dragged or while nothing is selected,
\* and Delete and Backspace invoke nothing when readOnly is true.
C14_KeysOnlyWhenIdleAndSelected ==
  [][ \A key \in KeyNames, mod \in BOOLEAN :
        (/\ KeyDown(key, mod, TRUE)
         /\ \/ draggingEdge
            \/ /\ selectedNodeObj.isNull \/ selectedNodeObj.node = NullNode
               /\ selectedEdgeObj.isNull
               /\ selected = NoSelection
            \/ readOnly /\ key \in {"Delete", "Backspace"})
          => fired' = <<>> /\ nodes' = nodes /\ edges' = edges ]_vars


\* C15: no drag frame (handleMouseMove, handleNodeMove) fires onUpdateNode,
\* onSelectNode, onCreateEdge or onSwapEdge, and the handlers of one gesture
\* (a node drag, an edge draw, an edge retarget: start, frames, end) fire
\* each of these notifications at most once.
C15_OncePerGesture ==
  /\ [](\A n \in Tallied \ {"frames"} : sent[n] <= 1)
  /\ [][ called' = "handleMouseMove" =>
           \A i \in DOMAIN fired' : fired'[i].name \notin Tallied ]_vars

\* A node drag with a frame has ended and has fired onUpdateNode and
\* onSelectNode.
C15_Witness ==
  /\ called = "handleDragEnd"
  /\ sent["frames"] = 1
  /\ sent["onUpdateNode"] = 1
  /\ sent["onSelectNode"] = 1


\* C16: every onDeleteNode(n, index, nodes) is fired with the position n had
\* in the node collection before the deletion and with the collection after
\* it, which is the collection before it less n, and n alone.
C16_DeleteNodeExact ==
  [][ \A i \in DOMAIN fired' :
        fired'[i].name = "onDeleteNode" =>
          LET n == fired'[i].node
              at == fired'[i].index
          IN /\ InRange(nodes, at)
             /\ nodes[at + 1] = n
             /\ fired'[i].nodes = nodes'
             /\ nodes' = Splice(nodes, at)
             /\ \A j \in DOMAIN nodes' : nodes'[j] # n ]_vars


\* C17: a plain click on the empty canvas leaves nothing selected and fires
\* onSelectNode(null); a click with the edge-modifier held fires
\* onCreateNode exactly once when readOnly is false; no click on the canvas
\* fires onCreateNode when readOnly is true.
C17_CanvasClick ==
  [][ \A sh \in BOOLEAN :
        ClickCanvas(sh) =>
          /\ ~sh => /\ selectedNodeObj'.isNull \/ selectedNodeObj'.node = NullNode
                    /\ selectedEdgeObj'.isNull \/ selectedEdgeObj'.edge = NullEdge
                    /\ \E i \in DOMAIN fired' :
                         fired'[i] = [name |-> "onSelectNode", node |-> NullNode]
          /\ (sh /\ ~readOnly) => Count(fired', "onCreateNode") = 1
          /\ readOnly => Count(fired', "onCreateNode") = 0 ]_vars


\* The scale k shows the box no larger than nine tenths of the viewport.
FitsIn(k, box, width, height) ==
  /\ ~RatLess(Rat(9 * width, 10), RatMul(k, Whole(box.width)))
  /\ ~RatLess(Rat(9 * height, 10), RatMul(k, Whole(box.height)))
\* ... and exactly nine tenths in one direction.
Tight(k, box, width, height) ==
  \/ RatMul(k, Whole(box.width)) = Rat(9 * width, 10)
  \/ RatMul(k, Whole(box.height)) = Rat(9 * height, 10)

\* C18: handleZoomToFit asks setZoom for a scale inside [minZoom, maxZoom].
\* For an empty bounding box it is (minZoom + maxZoom) / 2 with translation
\* 0, 0. Otherwise it is the scale at which the box fills nine tenths of
\* the viewport in its tighter direction (0.9 / max(dx / width,
\* dy / height)), or maxZoom when that scale is larger, or minZoom when it
\* is smaller; and the translation puts the box's centre on the viewport's
\* centre. A 100 x 100 box centred at (0, 0) in a viewport of 800 x 600
\* gives scale 1.5 and translation (400, 300).
C18_FitToContent ==
  [][ \A box \in Boxes \cup {EmptyBox}, view \in Viewports :
        ZoomToFit(box, view) =>
          LET k == fitted'.k
              w == view.width
              h == view.height
          IN /\ InExtent(k)
             /\ zoomTarget' = Transform(k, fitted'.x)
             /\ box = EmptyBox =>
                  /\ RatAdd(k, k) = RatAdd(MinZoom, MaxZoom)
                  /\ fitted'.x = Whole(0) /\ fitted'.y = Whole(0)
             /\ box # EmptyBox =>
                  /\ \/ FitsIn(k, box, w, h) /\ Tight(k, box, w, h)
                     \/ /\ k = MaxZoom
                        /\ FitsIn(k, box, w, h) /\ ~Tight(k, box, w, h)
                     \/ k = MinZoom /\ ~FitsIn(k, box, w, h)
                  /\ RatAdd(RatMul(k, Rat(2 * box.x + box.width, 2)), fitted'.x)
                       = Rat(w, 2)
                  /\ RatAdd(RatMul(k, Rat(2 * box.y + box.height, 2)), fitted'.y)
                       = Rat(h, 2)
             /\ (box = [x |-> -50, y |-> -50, width |-> 100, height |-> 100]
                 /\ view = [width |-> 800, height |-> 600]) =>
                  /\ k = <<3, 2>>
                  /\ fitted'.x = Whole(400) /\ fitted'.y = Whole(300) ]_vars

\* handleZoomToFit has run on a bounding box that is not empty and whose
\* fitting scale had to be clamped.
C18_Witness ==
  /\ called = "handleZoomToFit"
  /\ fitted.done
  /\ fitted.box # EmptyBox
  /\ fitted.k = MaxZoom
  /\ zoomTarget = Transform(fitted.k, fitted.x)


Waiting(type) == \E i \in DOMAIN timers : timers[i].type = type

\* C19: when the deferred addition or removal of edges runs, no redraw of a
\* node is still waiting; when the deferred removal of nodes runs, no
\* removal of edges is still waiting; and once no deferred callback is
\* waiting, every edge that is drawn has both its nodes in the node
\* collection.
C19_ReconcileOrder ==
  /\ [][ (RunTimer /\ Head(timers).type \in {"addNewEdges", "removeOldEdges"})
           => ~Waiting("renderNode") /\ ~Waiting("addNewNodes") ]_vars
  /\ [][ (RunTimer /\ Head(timers).type = "removeOldNodes")
           => ~Waiting("removeOldEdges") ]_vars
  /\ [](Quiet /\ mounted =>
          \A e \in DOMAIN domEdges :
            domEdges[e].rendered => e[1] \in Keys(nodes) /\ e[2] \in Keys(nodes))


\* C20: between any two handlers (so at every read of the indexes) every
\* entry of the node index points at its own node, nodes[originalArrIndex]
\* is entry.node, and every entry of the edge index at its own edge.
C20_IndexesPointAtEntries ==
  /\ \A k \in DOMAIN nodesMap :
       /\ InRange(nodes, nodesMap[k].originalArrIndex)
       /\ nodes[nodesMap[k].originalArrIndex + 1] = nodesMap[k].node
  /\ \A k \in DOMAIN edgesMap :
       /\ InRange(edges, edgesMap[k].originalArrIndex)
       /\ edges[edgesMap[k].originalArrIndex + 1] = edgesMap[k].edge


\* A zoom event was handled: the end of a transition, a wheel or pinch, or a
\* pointer move of a gesture begun on an edge.
ZoomEvent ==
  \/ ZoomTransition
  \/ \E k \in ZoomLevels, x \in Pans : UserZoom(k, x)
  \/ \E x \in Pans : RetargetMove(x)

\* C21: a zoom event (handleZoom) leaves the view transform as it was when a
\* node is hovered or an edge is being dragged; the view transform changes
\* only in a state where neither flag is set.
C21_ZoomSuppressed ==
  [][ /\ (ZoomEvent /\ (hoveredNode \/ draggingEdge))
           => viewTransform' = viewTransform
      /\ viewTransform' # viewTransform => ~hoveredNode /\ ~draggingEdge ]_vars

\* A zoom event was handled while an edge was dragged, after an earlier zoom
\* event had set the view transform.
C21_Witness ==
  /\ called = "handleZoom"
  /\ draggingEdge
  /\ draggedEdge # NullEdge
  /\ viewTransform.defined


\* What an operation of GraphView can change: the collections, the indexes,
\* the selection and gesture records, what is drawn and what is deferred.
GraphState ==
  << nodes, edges, pos, nodesMap, edgesMap, selectedNodeObj, selectedEdgeObj,
     draggingEdge, draggedEdge, domEdges, domCustom, timers >>

\* C22: an operation whose key or index is missing is a no-op that raises no
\* error and changes no state: a drag frame of a node whose index is past the
\* end of the node collection, a Delete of a selected node that is not in the
\* node index or of a selected edge that is not in the edge index, and the
\* release of a retargeted edge whose source is not in the node index.
C22_MissingEntryIsNoOp ==
  [][ /\ \A p \in Pos, sh \in BOOLEAN, c \in BOOLEAN :
           (/\ DragMove(p, sh, c)
            /\ ~InRange(nodes, domNodes[dragNode].index))
             => ~thrown' /\ fired' = <<>> /\ UNCHANGED GraphState
      /\ \A mod \in BOOLEAN :
           (/\ KeyDown("Delete", mod, TRUE)
            /\ ~selectedNodeObj.isNull
            /\ \/ /\ selectedNodeObj.node # NullNode
                  /\ selectedNodeObj.node.id \notin DOMAIN nodesMap
               \/ /\ selectedNodeObj.node = NullNode
                  /\ selected.kind = "edge"
                  /\ EdgeKey(selected.edge) \notin DOMAIN edgesMap)
             => ~thrown' /\ fired' = <<>> /\ UNCHANGED GraphState
      /\ (/\ RetargetEnd
          /\ draggingEdge
          /\ draggedEdge # NullEdge
          /\ draggedEdge.source \notin DOMAIN nodesMap)
             => ~thrown' /\ fired' = <<>> /\ UNCHANGED GraphState ]_vars


\* The caller supplies new collections: the state is rebuilt from the props.
CollectionsReplaced ==
  \/ \E e \in EdgeRefs : CallerAddEdge(e)
  \/ \E i \in 1..MaxEdges : CallerRemoveEdge(i)
  \/ \E i \in 1..MaxNodes : CallerReplaceNode(i)
  \/ \E i \in 1..MaxNodes, w \in BOOLEAN : CallerRemoveNode(i, w)

\* C23: when the caller replaces the node or edge collection while an edge
\* is being drawn or retargeted, the rebuild of the state leaves draggingEdge
\* false and draggedEdge null, and once the last deferred callback of that
\* update has run the transient edge element is gone.
C23_RebuildResetsGesture ==
  /\ [][ (CollectionsReplaced /\ draggingEdge)
           => ~draggingEdge' /\ draggedEdge' = NullEdge ]_vars
  /\ [][ (/\ RunTimer
          /\ Head(timers).type = "removeOldNodes"
          /\ ~Head(timers).prevNodeMap.live)
           => domCustom' = "none" ]_vars


\* C24: while an edge is being drawn or retargeted (draggingEdge true), no
\* deferred callback adds, redraws or removes a node element or an edge
\* element.
C24_DiffSuspendedWhileDragging ==
  [][ (RunTimer /\ draggingEdge)
        => domNodes' = domNodes /\ domEdges' = domEdges ]_vars


\* The edges of the edge collection that start or end at the node k.
EdgesAt(k) == {e \in EdgeKeys(edges) : Incident(e, k)}

\* C25: a drag frame without the edge-modifier, not read-only, on a node of
\* the collection changes only the position of that node: the node and edge
\* collections, both indexes, the selection, the gesture flags and the
\* deferred callbacks stay as they were; and in the same step the node is
\* drawn at its new position, each edge of the collection at the node is
\* drawn, and the element of no other edge is touched.
C25_MoveOnlyMoves ==
  [][ \A p \in Pos, c \in BOOLEAN :
        (/\ DragMove(p, FALSE, c)
         /\ ~readOnly
         /\ InRange(nodes, domNodes[dragNode].index)
         /\ nodes[domNodes[dragNode].index + 1].id = dragNode)
          => /\ ~thrown'
             /\ UNCHANGED << nodes, edges, nodesMap, edgesMap, selectedNodeObj,
                             selectedEdgeObj, hoveredNode, hoveredNodeData,
                             edgeEndNode, draggingEdge, draggedEdge, timers >>
             /\ \A k \in NodeIds \ {dragNode} : pos'[k] = pos[k]
             /\ pos'[dragNode] = p
             /\ domNodes'[dragNode].x = p
             /\ \A e \in EdgesAt(dragNode) :
                  e \in DOMAIN domEdges' /\ domEdges'[e].rendered
             /\ \A e \in (NodeIds \X NodeIds) \ EdgesAt(dragNode) :
                  /\ e \in DOMAIN domEdges' <=> e \in DOMAIN domEdges
                  /\ e \in DOMAIN domEdges => domEdges'[e] = domEdges[e] ]_vars


\* C26: no edge of the edge collection and no entry of the edge index is a
\* transient edge (an edge to a position, without a target key), whatever
\* edges were drawn or retargeted before.
C26_NoTransientPersisted ==
  /\ \A i \in DOMAIN edges : edges[i].source # 0 /\ edges[i].target # 0
  /\ \A k \in DOMAIN edgesMap :
       /\ k[1] # 0 /\ k[2] # 0
       /\ edgesMap[k].edge.source # 0 /\ edgesMap[k].edge.target # 0

\* The transient edge of a retarget is drawn while the collection holds the
\* edge that is being retargeted.
C26_Witness ==
  /\ draggingEdge
  /\ draggedEdge # NullEdge
  /\ domCustom = "rendered"
  /\ \E i \in DOMAIN edges : edges[i] = draggedEdge


\* C27: the release that ends an edge draw (a drag that set draggingEdge,
\* released with the edge-modifier held) leaves draggingEdge false, whether
\* the edge was created, rejected, or released over no node.
C27_DrawReturnsToIdle ==
  [][ \A c \in BOOLEAN :
        (DragEnd(TRUE, c) /\ draggingEdge) => ~draggingEdge' ]_vars


\* C28: once deleteNode(n) has run and no deferred callback is pending, no
\* element of n is drawn, even when a redraw of n was pending at the
\* deletion. (Here nodes leave the collection by deleteNode only.)
C28_DeletedNodeStaysGone ==
  (mounted /\ Quiet) => \A k \in DOMAIN domNodes : k \in Keys(nodes)


\* C29: the onCreateEdge fired by the release of an edge draw names as its
\* source the node the drag started on, whatever pointer and drag events
\* came before the release.
C29_SourceIsDraggedNode ==
  [][ \A c \in BOOLEAN :
        DragEnd(TRUE, c) =>
          \A i \in DOMAIN fired' :
            fired'[i].name = "onCreateEdge" => fired'[i].source.id = dragNode ]_vars


\* C30: after mount, state.selectedNodeObj is not null wherever its node is
\* read: when a deferred redraw of a node runs, when a release selects a
\* node, when a click on the canvas redraws the node that was selected
\* (the read follows the deselection), and on Ctrl/Cmd+C and Ctrl/Cmd+V.
C30_SelectionRecordNeverNull ==
  [][ /\ (RunTimer /\ Head(timers).type = "renderNode") => ~selectedNodeObj.isNull
      /\ \A key \in {"c", "v"} :
           KeyDown(key, TRUE, TRUE) => ~selectedNodeObj.isNull
      /\ \A sh \in BOOLEAN :
           (/\ ClickCanvas(sh)
            /\ ~selectedNodeObj.isNull
            /\ selectedNodeObj.node # NullNode)
             => ~selectedNodeObj'.isNull /\ ~thrown' ]_vars


\* The four deferred diff steps of one update pass, and the kinds of the
\* callbacks that are pending.
DiffSteps == <<"addNewNodes", "addNewEdges", "removeOldEdges", "removeOldNodes">>
TimerTypes(ts) == [i \in DOMAIN ts |-> ts[i].type]

\* C31: the update cycle comes to rest. Between handlers the component is
\* up to date (no further pass is due). One change of the caller's props
\* (collections or layout engine) makes one update pass, which schedules
\* its four diff steps once; so does the one setState of a deletion, and
\* the two setState calls of a release make two passes: with a layout
\* engine and without one.
C31_UpdateCycleQuiesces ==
  /\ [](mounted => componentUpToDate)
  /\ [][ (/\ Quiet
          /\ \/ CollectionsReplaced
             \/ \E type \in LayoutEngineTypes : CallerSetLayout(type))
           => TimerTypes(timers') = DiffSteps ]_vars
  /\ [][ (/\ Quiet
          /\ DeleteKey(TRUE)
          /\ (nodes' # nodes \/ edges' # edges))
           => TimerTypes(timers') = DiffSteps ]_vars
  /\ [][ (/\ Quiet
          /\ DragEnd(FALSE, TRUE)
          /\ dragNode \in DOMAIN domNodes
          /\ ~thrown')
           => TimerTypes(timers') = DiffSteps \o DiffSteps ]_vars

\* A deletion (one setState with componentUpToDate false) has made its update
\* pass while a layout engine that moves nodes is configured.
C31_Witness ==
  /\ called = "handleWrapperKeydown"
  /\ layoutEngineType = "SnapToGrid"
  /\ layoutEngine = "SnapToGrid"
  /\ DeletedNodes # {}
  /\ TimerTypes(timers) = DiffSteps
  /\ componentUpToDate


\* C32: one syncRenderEdge for an edge that has no container yet leaves the
\* edge drawn: the first frame of an edge draw leaves the transient edge
\* rendered in its container, and an accepted release leaves the new edge
\* rendered in its container.
C32_FirstRenderDraws ==
  [][ /\ (/\ DragMove(0, TRUE, TRUE)
          /\ ~readOnly
          /\ InRange(nodes, domNodes[dragNode].index)
          /\ domCustom = "none")
           => domCustom' = "rendered"
      /\ \A c \in BOOLEAN :
           DragEnd(TRUE, c) =>
             \A i \in DOMAIN fired' :
               (/\ fired'[i].name = "onCreateEdge"
                /\ <<fired'[i].source.id, fired'[i].target.id>> \notin DOMAIN domEdges)
                 => LET e == <<fired'[i].source.id, fired'[i].target.id>>
                    IN e \in DOMAIN domEdges' /\ domEdges'[e].rendered ]_vars

=============================================================================
